---- MODULE Spec2Model ----
(***************************************************************************)
(* Model of script.py, the Redmatch 2 RU localization fix: main,           *)
(* patch_russian_column, load_ru_map, backup_file and their helpers.       *)
(*                                                                         *)
(* A string is a sequence of one-character strings, a CSV row a sequence   *)
(* of strings, a CSV file a sequence of rows (the csv module's reader and  *)
(* writer are the standard library's; files are kept at the level of the   *)
(* records they exchange with the program).  A path is the sequence of the *)
(* dot-separated parts of its file name.  Column indices are 0-based, as   *)
(* in the source.                                                          *)
(***************************************************************************)
EXTENDS Integers, Sequences, FiniteSets, TLC

\* ------------------------------------------------------------------ bounds

\* Most data rows of a CSV file.
MaxRows == 2

\* ---------------------------------------------------------------- strings

EMPTY == << >>

LowerOf ==
  [A |-> "a", B |-> "b", C |-> "c", D |-> "d", E |-> "e", F |-> "f", G |-> "g",
   H |-> "h", I |-> "i", J |-> "j", K |-> "k", L |-> "l", M |-> "m", N |-> "n",
   O |-> "o", P |-> "p", Q |-> "q", R |-> "r", S |-> "s", T |-> "t", U |-> "u",
   V |-> "v", W |-> "w", X |-> "x", Y |-> "y", Z |-> "z"]

\* str.lower()
lower(s) == [i \in 1..Len(s) |-> IF s[i] \in DOMAIN LowerOf THEN LowerOf[s[i]] ELSE s[i]]

IsSpace(c) == c \in {" ", "\t"}

RECURSIVE lstrip(_)
lstrip(s) == IF s # << >> /\ IsSpace(Head(s)) THEN lstrip(Tail(s)) ELSE s

RECURSIVE rstrip(_)
rstrip(s) ==
  IF s # << >> /\ IsSpace(s[Len(s)]) THEN rstrip(SubSeq(s, 1, Len(s) - 1)) ELSE s

\* str.strip()
strip(s) == rstrip(lstrip(s))

\* ------------------------------------------------------- module constants

HELP_FLAGS == {"-h", "--help", "/?"}

TEXT_KEY_COLUMN ==
  <<"T","e","x","t"," ","K","e","y"," ","(","i","n","t","e","r","n","a","l",
    " ","u","s","e"," ","o","n","l","y",")">>

RUSSIAN_COLUMN == <<"r","u","s","s","i","a","n">>

\* ---------------------------------------------------------------- helpers

normalize_header(name) == lower(strip(name))

\* The indices (0-based) of the columns whose normalized name is the expected one.
MatchingColumns(header, expected) ==
  {i \in 0..(Len(header) - 1) :
     normalize_header(header[i + 1]) = normalize_header(expected)}

\* find_column_index raises ValueError exactly when this is FALSE.
ColumnFound(header, expected) == MatchingColumns(header, expected) # {}

FirstOf(S) == CHOOSE i \in S : \A j \in S : i <= j

find_column_index(header, expected) == FirstOf(MatchingColumns(header, expected))

safe_get(row, idx) == IF idx < Len(row) THEN row[idx + 1] ELSE EMPTY

\* A padding that also cuts a longer row to the length.
ensure_row_length_m(row, length) ==
  SubSeq(row \o [i \in 1..length |-> EMPTY], 1, length)

ensure_row_length(row, length) ==
  IF Len(row) < length THEN row \o [i \in 1..(length - Len(row)) |-> EMPTY] ELSE row

\* -------------------------------------------------------------- load map

EmptyMap == [k \in {} |-> EMPTY]

\* ru_map[key] = value, keeping the first value stored under the key.
MapPut_m(m, k, v) ==
  [x \in (DOMAIN m) \cup {k} |-> IF x \in DOMAIN m THEN m[x] ELSE v]

\* ru_map[key] = value
MapPut(m, k, v) == [x \in (DOMAIN m) \cup {k} |-> IF x = k THEN v ELSE m[x]]

\* The loop of load_ru_map over the data rows, in file order.
RECURSIVE LoadRows(_, _, _, _)
LoadRows(rows, kidx, ridx, m) ==
  IF rows = << >> THEN m
  ELSE LET key == strip(safe_get(Head(rows), kidx))
       IN  LoadRows(Tail(rows), kidx, ridx,
                    IF key = EMPTY THEN m
                    ELSE MapPut(m, key, safe_get(Head(rows), ridx)))

\* What load_ru_map raises on a file's records: "" when it returns.
LoadError(table) ==
  IF table = << >> THEN "StopIteration"
  ELSE IF ~ColumnFound(table[1], TEXT_KEY_COLUMN) THEN "ValueError"
  ELSE IF ~ColumnFound(table[1], RUSSIAN_COLUMN) THEN "ValueError"
  ELSE ""

load_ru_map(table) ==
  LoadRows(Tail(table),
           find_column_index(table[1], TEXT_KEY_COLUMN),
           find_column_index(table[1], RUSSIAN_COLUMN),
           EmptyMap)

\* ------------------------------------------------------------- row patch

\* key = safe_get(row, key_idx).strip()
RowKey(row, kidx) == strip(safe_get(row, kidx))

\* The count without its test that the key is not empty.
IsMissing_m(key, m) == key \notin DOMAIN m

\* if key and new_ru is None
IsMissing(key, m) == key # EMPTY /\ key \notin DOMAIN m

\* The test without its guard against an empty replacement.
ShouldPatch_m(key, m, allow) == key \in DOMAIN m

\* if new_ru is not None and (cfg.allow_empty_replacement or new_ru != "")
ShouldPatch(key, m, allow) == key \in DOMAIN m /\ (allow \/ m[key] # EMPTY)

\* A comparison that takes every patched cell for a change.
CellDiffers_m(old, new) == TRUE

\* if row[ru_idx] != new_ru
CellDiffers(old, new) == old # new

\* The row handed to writer.writerow.
WrittenRow(row, kidx, ridx, m, allow) ==
  LET key == RowKey(row, kidx)
  IN  IF ShouldPatch(key, m, allow)
      THEN [ensure_row_length(row, ridx + 1) EXCEPT ![ridx + 1] = m[key]]
      ELSE row

\* Whether the row increments changed_rows.
CountsChanged(row, kidx, ridx, m, allow) ==
  LET key == RowKey(row, kidx)
  IN  /\ ShouldPatch(key, m, allow)
      /\ CellDiffers(ensure_row_length(row, ridx + 1)[ridx + 1], m[key])

\* ------------------------------------------------------------------ paths

\* Path.suffix: the last dot-separated part of the name, if any.
suffix(path) == IF Len(path) > 1 THEN <<path[Len(path)]>> ELSE << >>

\* Path.with_suffix
with_suffix(path, parts) ==
  (IF Len(path) > 1 THEN SubSeq(path, 1, Len(path) - 1) ELSE path) \o parts

\* datetime.now().strftime("%Y%m%d_%H%M%S") behind ".bak_", at successive seconds.
BackupStamp == <<"bak_20240115_153045", "bak_20240115_153046">>

backup_path_of(path, clock) == with_suffix(path, <<BackupStamp[clock]>> \o suffix(path))

TmpPathOf(path) == with_suffix(path, <<"tmp">>)

RemakePath == <<"LocalizationRemake", "csv">>

\* Path(argv[1]) for the path arguments of the model.
PathArg == ("loc.csv" :> <<"loc", "csv">>) @@ ("loc.tmp" :> <<"loc", "tmp">>)

TargetPaths == {PathArg[a] : a \in DOMAIN PathArg}

Absent == [exists |-> FALSE, rows |-> << >>]

File(rows) == [exists |-> TRUE, rows |-> rows]

AllPaths ==
  {RemakePath} \cup TargetPaths \cup {TmpPathOf(p) : p \in TargetPaths}
    \cup {backup_path_of(p, c) : p \in TargetPaths, c \in 1..Len(BackupStamp)}

\* A copy that creates the backup without the content.
backup_file_m(files, path, clock) ==
  [files EXCEPT ![backup_path_of(path, clock)] = File(<< >>)]

\* shutil.copy2(path, backup_path)
backup_file(files, path, clock) ==
  [files EXCEPT ![backup_path_of(path, clock)] = files[path]]

\* tmp_path.replace(cfg.target_csv)
replace(files, src, dst) ==
  IF src = dst THEN files ELSE [files EXCEPT ![dst] = files[src], ![src] = Absent]

\* ------------------------------------------------------------------ state

VARIABLES
  argv,          \* sys.argv
  entry,         \* "main": run as a script; "patch": patch_russian_column called
  run,           \* "first" or "second" call of patch_russian_column
  pc,            \* the statement about to run
  cfg,           \* Config
  fs,            \* the file system: path -> [exists, rows]
  now,           \* the clock: index of the current second in BackupStamp
  ru_map, backup_path, tmp_path, header, key_idx, ru_idx,
  pos,           \* records the target's reader has consumed
  changed_rows, missing_keys,
  error,         \* the exception raised ("" for none)
  exit_code,     \* main's return value (-1 before it returns)
  fs0,           \* history: the file system when the call began
  accessed,      \* history: the paths the run has looked at or opened
  raised_at,     \* history: the statement that raised
  replaced       \* history: tmp_path.replace(...) has run in this call

vars ==
  <<argv, entry, run, pc, cfg, fs, now, ru_map, backup_path, tmp_path, header,
    key_idx, ru_idx, pos, changed_rows, missing_keys, error, exit_code, fs0,
    accessed, raised_at, replaced>>

locals == <<ru_map, backup_path, tmp_path, header, key_idx, ru_idx, pos,
            changed_rows, missing_keys>>

\* ----------------------------------------------------------------- inputs

A == <<"a">>

A_SPACED == <<" ", "a", " ">>

B == <<"b">>

ENGLISH == <<"e", "n", "g", "l", "i", "s", "h">>

RUSSIAN_SPACED_UPPER == <<" ", "R", "U", "S", "S", "I", "A", "N", " ">>

HdrKeyRu == <<TEXT_KEY_COLUMN, RUSSIAN_COLUMN>>

HdrKeyEnRu == <<TEXT_KEY_COLUMN, ENGLISH, RUSSIAN_COLUMN>>

HdrRuEnKey == <<RUSSIAN_SPACED_UPPER, ENGLISH, lower(TEXT_KEY_COLUMN)>>

HdrRuKey == <<RUSSIAN_SPACED_UPPER, lower(TEXT_KEY_COLUMN)>>

HdrKeyEn == <<TEXT_KEY_COLUMN, ENGLISH>>

HdrEnRu == <<ENGLISH, RUSSIAN_COLUMN>>

SeqsUpTo(S, n) == UNION {[1..k -> S] : k \in 0..n}

\* The files with one of the headers and at most MaxRows data rows of the set.
Tables(headers, rowset) ==
  {File(<<h>> \o rs) : h \in headers, rs \in SeqsUpTo(rowset, MaxRows)}

MkFs(target, tfile, rfile) ==
  [p \in AllPaths |->
     IF p = target THEN tfile ELSE IF p = RemakePath THEN rfile ELSE Absent]

Argvs ==
  {<<"script.py">>, <<"script.py", "-h">>, <<"script.py", "--help">>,
   <<"script.py", "/?">>, <<"script.py", "loc.csv">>, <<"script.py", "loc.tmp">>,
   <<"script.py", "loc.csv", "extra">>}

NoConfig ==
  [target_csv |-> << >>, remake_csv |-> << >>, allow_empty_replacement |-> FALSE]

MainTargetFiles ==
  {Absent, File(<< >>)}
    \cup Tables({HdrKeyEnRu, HdrKeyEn}, {<<A_SPACED>>, <<A, B, B>>})

MainRemakeFiles ==
  {Absent, File(<< >>)} \cup Tables({HdrKeyRu, HdrEnRu}, {<<A, A>>, <<B>>})

PatchTargetFiles ==
  {Absent, File(<< >>)}
    \cup Tables({HdrKeyEn}, {<< >>})
    \cup Tables({HdrKeyEnRu, HdrRuEnKey},
                {<<A_SPACED>>, <<A, B, B>>, <<B, A, A_SPACED>>})

PatchRemakeFiles ==
  {Absent, File(<< >>)}
    \cup Tables({HdrEnRu}, {<< >>})
    \cup Tables({HdrKeyRu, HdrRuKey}, {<<A, B>>, <<A_SPACED>>, <<B, EMPTY>>})

InitLocals ==
  /\ ru_map = EmptyMap
  /\ backup_path = << >>
  /\ tmp_path = << >>
  /\ header = << >>
  /\ key_idx = 0
  /\ ru_idx = 0
  /\ pos = 0
  /\ changed_rows = 0
  /\ missing_keys = 0

InitCommon ==
  /\ run = "first"
  /\ now = 1
  /\ InitLocals
  /\ error = ""
  /\ exit_code = -1
  /\ fs0 = fs
  /\ accessed = {}
  /\ raised_at = ""
  /\ replaced = FALSE

\* The script is started with some command line.
Init ==
  /\ argv \in Argvs
  /\ entry = "main"
  /\ pc = "main"
  /\ cfg = NoConfig
  /\ \E t \in MainTargetFiles, r \in MainRemakeFiles :
       fs = MkFs(IF Len(argv) = 2 /\ argv[2] \in DOMAIN PathArg
                 THEN PathArg[argv[2]] ELSE PathArg["loc.csv"], t, r)
  /\ InitCommon

\* patch_russian_column is called with some Config.
InitPatch ==
  /\ argv = << >>
  /\ entry = "patch"
  /\ pc = "patch"
  /\ \E allow \in BOOLEAN :
       cfg = [target_csv |-> PathArg["loc.csv"], remake_csv |-> RemakePath,
              allow_empty_replacement |-> allow]
  /\ \E t \in PatchTargetFiles, r \in PatchRemakeFiles :
       fs = MkFs(PathArg["loc.csv"], t, r)
  /\ InitCommon

\* ------------------------------------------------------------------- main

\* A test that lets extra arguments through.
WrongArgCount_m(args) == Len(args) < 2

\* if len(argv) != 2
WrongArgCount(args) == Len(args) # 2

\* The exception classes that `except Exception` catches.
ExceptionClasses == {"FileNotFoundError", "ValueError", "StopIteration", "OSError"}

Raise(e) ==
  /\ pc' = "raised"
  /\ error' = e
  /\ raised_at' = pc

NoRaise == UNCHANGED <<error, raised_at>>

\* main: a wrong argument count prints the usage and returns 2.
MainUsage ==
  /\ pc = "main"
  /\ WrongArgCount(argv)
  /\ pc' = "exit"
  /\ exit_code' = 2
  /\ UNCHANGED <<argv, entry, run, cfg, fs, now, locals, fs0, replaced, accessed>>
  /\ NoRaise

\* main: a help flag prints the usage and returns 0.
MainHelp ==
  /\ pc = "main"
  /\ ~WrongArgCount(argv)
  /\ argv[2] \in HELP_FLAGS
  /\ pc' = "exit"
  /\ exit_code' = 0
  /\ UNCHANGED <<argv, entry, run, cfg, fs, now, locals, fs0, replaced, accessed>>
  /\ NoRaise

\* main: builds the Config and calls patch_russian_column.
MainRun ==
  /\ pc = "main"
  /\ ~WrongArgCount(argv)
  /\ argv[2] \notin HELP_FLAGS
  /\ cfg' = [target_csv |-> PathArg[argv[2]], remake_csv |-> RemakePath,
             allow_empty_replacement |-> FALSE]
  /\ pc' = "patch"
  /\ UNCHANGED <<argv, entry, run, fs, now, locals, exit_code, fs0, replaced, accessed>>
  /\ NoRaise

\* main: except Exception prints the error and returns 1.
MainExcept ==
  /\ pc = "raised"
  /\ entry = "main"
  /\ error \in ExceptionClasses
  /\ pc' = "exit"
  /\ exit_code' = 1
  /\ UNCHANGED <<argv, entry, run, cfg, fs, now, locals, fs0, replaced, accessed>>
  /\ NoRaise

\* main: prints the report and returns 0.
MainDone ==
  /\ pc = "return"
  /\ entry = "main"
  /\ pc' = "exit"
  /\ exit_code' = 0
  /\ UNCHANGED <<argv, entry, run, cfg, fs, now, locals, fs0, replaced, accessed>>
  /\ NoRaise

\* --------------------------------------------------- patch_russian_column

TargetMissing ==
  /\ pc = "patch"
  /\ ~fs[cfg.target_csv].exists
  /\ Raise("FileNotFoundError")
  /\ accessed' = accessed \cup {cfg.target_csv}
  /\ UNCHANGED <<argv, entry, run, cfg, fs, now, locals, exit_code, fs0, replaced>>

TargetExists ==
  /\ pc = "patch"
  /\ fs[cfg.target_csv].exists
  /\ pc' = "check_remake"
  /\ accessed' = accessed \cup {cfg.target_csv}
  /\ UNCHANGED <<argv, entry, run, cfg, fs, now, locals, exit_code, fs0, replaced>>
  /\ NoRaise

RemakeMissing ==
  /\ pc = "check_remake"
  /\ ~fs[cfg.remake_csv].exists
  /\ Raise("FileNotFoundError")
  /\ accessed' = accessed \cup {cfg.remake_csv}
  /\ UNCHANGED <<argv, entry, run, cfg, fs, now, locals, exit_code, fs0, replaced>>

RemakeExists ==
  /\ pc = "check_remake"
  /\ fs[cfg.remake_csv].exists
  /\ pc' = "load"
  /\ accessed' = accessed \cup {cfg.remake_csv}
  /\ UNCHANGED <<argv, entry, run, cfg, fs, now, locals, exit_code, fs0, replaced>>
  /\ NoRaise

\* ru_map = load_ru_map(cfg.remake_csv)
LoadRuMap ==
  /\ pc = "load"
  /\ LoadError(fs[cfg.remake_csv].rows) = ""
  /\ ru_map' = load_ru_map(fs[cfg.remake_csv].rows)
  /\ pc' = "backup"
  /\ UNCHANGED <<argv, entry, run, cfg, fs, now, backup_path, tmp_path, header,
                 key_idx, ru_idx, pos, changed_rows, missing_keys, exit_code, fs0, replaced,
                 accessed>>
  /\ NoRaise

\* load_ru_map raises: no header row, or a required column is not in it.
LoadRuMapRaise ==
  /\ pc = "load"
  /\ LoadError(fs[cfg.remake_csv].rows) # ""
  /\ Raise(LoadError(fs[cfg.remake_csv].rows))
  /\ UNCHANGED <<argv, entry, run, cfg, fs, now, locals, exit_code, fs0, replaced, accessed>>

\* backup_path = backup_file(cfg.target_csv)
Backup ==
  /\ pc = "backup"
  /\ backup_path' = backup_path_of(cfg.target_csv, now)
  /\ fs' = backup_file(fs, cfg.target_csv, now)
  /\ accessed' = accessed \cup {backup_path_of(cfg.target_csv, now)}
  /\ pc' = "open"
  /\ UNCHANGED <<argv, entry, run, cfg, now, ru_map, tmp_path, header, key_idx,
                 ru_idx, pos, changed_rows, missing_keys, exit_code, fs0, replaced>>
  /\ NoRaise

\* shutil.copy2 fails; the copy it had begun may be left behind, cut short.
BackupFails ==
  /\ pc = "backup"
  /\ \E partial \in BOOLEAN :
       fs' = IF partial
             THEN [fs EXCEPT ![backup_path_of(cfg.target_csv, now)] = File(<< >>)]
             ELSE fs
  /\ accessed' = accessed \cup {backup_path_of(cfg.target_csv, now)}
  /\ Raise("OSError")
  /\ UNCHANGED <<argv, entry, run, cfg, now, locals, exit_code, fs0, replaced>>

\* tmp_path = ...with_suffix(".tmp"); the target is opened to read and the
\* temporary file to write, which creates it or cuts it to nothing.
OpenFiles ==
  /\ pc = "open"
  /\ tmp_path' = TmpPathOf(cfg.target_csv)
  /\ fs' = [fs EXCEPT ![TmpPathOf(cfg.target_csv)] = File(<< >>)]
  /\ accessed' = accessed \cup {TmpPathOf(cfg.target_csv)}
  /\ pos' = 0
  /\ pc' = "header"
  /\ UNCHANGED <<argv, entry, run, cfg, now, ru_map, backup_path, header, key_idx,
                 ru_idx, changed_rows, missing_keys, exit_code, fs0, replaced>>
  /\ NoRaise

\* header = next(reader); writer.writerow(header)
CopyHeader ==
  /\ pc = "header"
  /\ pos < Len(fs[cfg.target_csv].rows)
  /\ header' = fs[cfg.target_csv].rows[pos + 1]
  /\ pos' = pos + 1
  /\ fs' = [fs EXCEPT ![tmp_path].rows = Append(@, fs[cfg.target_csv].rows[pos + 1])]
  /\ pc' = "columns"
  /\ UNCHANGED <<argv, entry, run, cfg, now, ru_map, backup_path, tmp_path, key_idx,
                 ru_idx, changed_rows, missing_keys, exit_code, fs0, replaced, accessed>>
  /\ NoRaise

\* next(reader) on a file with no record raises StopIteration.
NoHeader ==
  /\ pc = "header"
  /\ pos >= Len(fs[cfg.target_csv].rows)
  /\ Raise("StopIteration")
  /\ UNCHANGED <<argv, entry, run, cfg, fs, now, locals, exit_code, fs0, replaced, accessed>>

\* key_idx, ru_idx = find_column_index(header, ...)
FindColumns ==
  /\ pc = "columns"
  /\ ColumnFound(header, TEXT_KEY_COLUMN)
  /\ ColumnFound(header, RUSSIAN_COLUMN)
  /\ key_idx' = find_column_index(header, TEXT_KEY_COLUMN)
  /\ ru_idx' = find_column_index(header, RUSSIAN_COLUMN)
  /\ pc' = "rows"
  /\ UNCHANGED <<argv, entry, run, cfg, fs, now, ru_map, backup_path, tmp_path,
                 header, pos, changed_rows, missing_keys, exit_code, fs0, replaced, accessed>>
  /\ NoRaise

ColumnMissing ==
  /\ pc = "columns"
  /\ ~(ColumnFound(header, TEXT_KEY_COLUMN) /\ ColumnFound(header, RUSSIAN_COLUMN))
  /\ Raise("ValueError")
  /\ UNCHANGED <<argv, entry, run, cfg, fs, now, locals, exit_code, fs0, replaced, accessed>>

\* One turn of `for row in reader`: the row is patched and written.
PatchRow ==
  /\ pc = "rows"
  /\ pos < Len(fs[cfg.target_csv].rows)
  /\ LET row == fs[cfg.target_csv].rows[pos + 1]
         key == RowKey(row, key_idx)
     IN  /\ missing_keys' = IF IsMissing(key, ru_map) THEN missing_keys + 1
                            ELSE missing_keys
         /\ changed_rows' =
              IF CountsChanged(row, key_idx, ru_idx, ru_map, cfg.allow_empty_replacement)
              THEN changed_rows + 1 ELSE changed_rows
         /\ fs' = [fs EXCEPT ![tmp_path].rows =
                     Append(@, WrittenRow(row, key_idx, ru_idx, ru_map,
                                          cfg.allow_empty_replacement))]
  /\ pos' = pos + 1
  /\ UNCHANGED <<argv, entry, run, pc, cfg, now, ru_map, backup_path, tmp_path,
                 header, key_idx, ru_idx, exit_code, fs0, replaced, accessed>>
  /\ NoRaise

\* The loop is over: tmp_path.replace(cfg.target_csv), and the function returns.
Replace ==
  /\ pc = "rows"
  /\ pos >= Len(fs[cfg.target_csv].rows)
  /\ fs' = replace(fs, tmp_path, cfg.target_csv)
  /\ replaced' = TRUE
  /\ pc' = "return"
  /\ UNCHANGED <<argv, entry, run, cfg, now, locals, exit_code, fs0, accessed>>
  /\ NoRaise

\* An I/O failure while a file is opened, read, written or replaced.
IOSteps == {"load", "open", "header", "rows"}

IOFailure ==
  /\ pc \in IOSteps
  /\ Raise("OSError")
  /\ UNCHANGED <<argv, entry, run, cfg, fs, now, locals, exit_code, fs0, replaced, accessed>>

\* The process is killed from outside.
Running == pc \notin {"exit", "raised", "return", "killed"}

Kill ==
  /\ Running \/ (entry = "main" /\ pc \in {"raised", "return"})
  /\ pc' = "killed"
  /\ UNCHANGED <<argv, entry, run, cfg, fs, now, locals, error, exit_code, fs0, replaced,
                 accessed, raised_at>>

\* patch_russian_column is called again with the same Config, now or a second later.
Rerun ==
  /\ entry = "patch"
  /\ pc = "return"
  /\ run = "first"
  /\ run' = "second"
  /\ pc' = "patch"
  /\ now' \in {now, now + 1}
  /\ fs0' = fs
  /\ replaced' = FALSE
  /\ UNCHANGED fs
  /\ accessed' = {}
  /\ ru_map' = EmptyMap
  /\ backup_path' = << >>
  /\ tmp_path' = << >>
  /\ header' = << >>
  /\ key_idx' = 0
  /\ ru_idx' = 0
  /\ pos' = 0
  /\ changed_rows' = 0
  /\ missing_keys' = 0
  /\ UNCHANGED <<argv, entry, cfg, exit_code>>
  /\ NoRaise

Patch ==
  \/ TargetMissing \/ TargetExists \/ RemakeMissing \/ RemakeExists
  \/ LoadRuMap \/ LoadRuMapRaise \/ Backup \/ OpenFiles \/ CopyHeader \/ NoHeader
  \/ FindColumns \/ ColumnMissing \/ PatchRow \/ Replace

Next ==
  \/ MainUsage \/ MainHelp \/ MainRun \/ MainExcept \/ MainDone
  \/ Patch \/ BackupFails \/ IOFailure \/ Kill

Spec == Init /\ [][Next]_vars

NextPatch == Patch \/ Rerun

SpecPatch == InitPatch /\ [][NextPatch]_vars

\* ------------------------------------------------- terms of the properties

\* A field of a row, the empty string where the row has no such field.
Field(row, idx) == IF idx < Len(row) THEN row[idx + 1] ELSE << >>

\* The first column of a header with the given name (trimmed, lower-cased).
HasColumn(h, name) == \E i \in 1..Len(h) : lower(strip(h[i])) = lower(strip(name))

ColumnOf(h, name) ==
  LET n == lower(strip(name))
      hn == [i \in 1..Len(h) |-> lower(strip(h[i]))]
  IN  CHOOSE i \in 0..(Len(h) - 1) :
        hn[i + 1] = n /\ \A j \in 0..(i - 1) : hn[j + 1] # n

Called == cfg # NoConfig

Target == cfg.target_csv

\* The target and the reference as they were when the call began.
Orig == fs0[cfg.target_csv].rows

Ref == fs0[cfg.remake_csv].rows

\* A required column is not in a header that was read, or an input file is not there.
BadInput ==
  \/ ~fs0[cfg.target_csv].exists
  \/ ~fs0[cfg.remake_csv].exists
  \/ Ref # << >> /\ ~(HasColumn(Ref[1], TEXT_KEY_COLUMN) /\ HasColumn(Ref[1], RUSSIAN_COLUMN))
  \/ Orig # << >> /\ ~(HasColumn(Orig[1], TEXT_KEY_COLUMN) /\ HasColumn(Orig[1], RUSSIAN_COLUMN))

IsHelp == Len(argv) = 2 /\ argv[2] \in {"-h", "--help", "/?"}

\* The target fully rewritten: its header, then each row patched from the reference.
Rewritten ==
  <<Orig[1]>> \o
    [i \in 1..(Len(Orig) - 1) |->
       WrittenRow(Orig[i + 1], ColumnOf(Orig[1], TEXT_KEY_COLUMN),
                  ColumnOf(Orig[1], RUSSIAN_COLUMN), load_ru_map(Ref),
                  cfg.allow_empty_replacement)]

\* ------------------------------------------------------------- properties

\* C1: in every state of a call, a failure or a kill at any step included, the
\* target file holds either exactly its original content or exactly the fully
\* rewritten content, and the rewritten content only after the replace step.
C1_AllOrNothing ==
  Called =>
    \/ fs[Target] = fs0[Target]
    \/ replaced /\ fs[Target] = File(Rewritten)

\* C2: the target differs from what it was before the run only once the backup
\* exists; the backup holds the target's content from before the run; and when
\* the backup copy fails, the replace step never runs and the target is unchanged.
C2_BackupPrecedesMutation ==
  Called =>
    /\ (fs[Target] # fs0[Target] \/ replaced) =>
          backup_path # << >> /\ fs[backup_path] = fs0[Target]
    /\ backup_path # << >> => fs[backup_path] = fs0[Target]
    /\ raised_at = "backup" => ~replaced /\ fs[Target] = fs0[Target]

\* C2's case: a run that changed the target and left the original in the backup.
C2_Witness ==
  /\ pc = "exit" /\ exit_code = 0 /\ replaced
  /\ fs[Target] # fs0[Target]
  /\ fs[backup_path] = fs0[Target]

\* C3: with a required column absent from either header, or an input file
\* missing, the run ends in an error with the target as it was, and main returns 1.
C3_FailsBeforeMutation ==
  (Called /\ BadInput /\ pc = "exit") =>
    /\ error # ""
    /\ exit_code = 1
    /\ fs[Target] = fs0[Target]

\* C8: main returns 2 for a wrong argument count and 0 for a help flag, with no
\* file looked at or changed; 1 for every failure the pipeline raises, each of
\* which the handler catches; and 0 otherwise only after the target was replaced.
C8_ExitStatus ==
  /\ (pc = "raised" /\ entry = "main") => error \in ExceptionClasses
  /\ pc = "exit" =>
       /\ Len(argv) # 2 => exit_code = 2 /\ fs = fs0 /\ accessed = {}
       /\ IsHelp => exit_code = 0 /\ fs = fs0 /\ accessed = {}
       /\ error # "" => exit_code = 1
       /\ (Len(argv) = 2 /\ ~IsHelp /\ error = "") => exit_code = 0
       /\ (exit_code = 0 /\ ~IsHelp) => replaced /\ error = ""

\* C8's case: a failure raised inside the pipeline, reported with status 1.
C8_Witness ==
  /\ pc = "exit" /\ exit_code = 1
  /\ error = "StopIteration" /\ raised_at = "header"

\* C10: when a run ends on its own, with success or with a reported missing file
\* or missing required column, no temporary sibling of the target remains.
C10_NoStrayTemp ==
  (/\ Called /\ pc = "exit"
   /\ TmpPathOf(Target) # Target
   /\ exit_code = 0 \/ error \in {"FileNotFoundError", "ValueError"})
    => ~fs[TmpPathOf(Target)].exists

\* --------------------------------------------------- properties of the rows

\* The call has loaded the reference mapping.
Loaded == pc \in {"backup", "open", "header", "columns", "rows", "return"}

\* The trimmed key of record i of a file (record 1 is the header), the key
\* column being column kidx.
KeyOf(rows, i, kidx) == strip(Field(rows[i], kidx))

\* The non-empty trimmed keys of the reference's data rows.
RefKeys ==
  LET kidx == ColumnOf(Ref[1], TEXT_KEY_COLUMN)
  IN  {KeyOf(Ref, i, kidx) : i \in 2..Len(Ref)} \ {<< >>}

\* C9: the mapping's keys are exactly the non-empty trimmed keys of the
\* reference's data rows, and each key's value is the value field of the last
\* data row with that key, the empty string when that row is too short.
C9_LoadRuMap ==
  Loaded =>
    LET kidx == ColumnOf(Ref[1], TEXT_KEY_COLUMN)
        ridx == ColumnOf(Ref[1], RUSSIAN_COLUMN)
    IN  /\ DOMAIN ru_map = RefKeys
        /\ \A i \in 2..Len(Ref) :
             (/\ KeyOf(Ref, i, kidx) # << >>
              /\ \A j \in (i + 1)..Len(Ref) : KeyOf(Ref, j, kidx) # KeyOf(Ref, i, kidx))
               => ru_map[KeyOf(Ref, i, kidx)] = Field(Ref[i], ridx)

\* C9's case: a key on two rows with different values, loaded with the later one.
C9_Witness ==
  /\ Loaded
  /\ LET kidx == ColumnOf(Ref[1], TEXT_KEY_COLUMN)
         ridx == ColumnOf(Ref[1], RUSSIAN_COLUMN)
     IN  \E i \in 2..Len(Ref) : \E j \in (i + 1)..Len(Ref) :
           /\ KeyOf(Ref, i, kidx) # << >>
           /\ KeyOf(Ref, j, kidx) = KeyOf(Ref, i, kidx)
           /\ Field(Ref[i], ridx) # Field(Ref[j], ridx)
           /\ ru_map[KeyOf(Ref, i, kidx)] = Field(Ref[j], ridx)

\* The rows loop has begun, or the call has returned.
InRows == pc \in {"rows", "return"}

\* The records written so far: in the temporary file, then in the target.
Written == IF pc = "rows" THEN fs[tmp_path].rows ELSE fs[Target].rows

\* The columns of the target, from its own header.
KeyIdx == ColumnOf(Orig[1], TEXT_KEY_COLUMN)

RuIdx == ColumnOf(Orig[1], RUSSIAN_COLUMN)

\* The mapping has a value for the key that may replace a row's value.
Applies(key) ==
  /\ key \in DOMAIN ru_map
  /\ cfg.allow_empty_replacement \/ ru_map[key] # << >>

\* C4: a row whose key has a mapping value that may replace (non-empty, or empty
\* replacement allowed) is written with that value in the value column, counted
\* as changed exactly when its cell, empty if absent, differed; every other row is
\* written as read.  Indices are those of the target's own header.
C4_RowPatchRule ==
  InRows =>
    LET kidx == KeyIdx
        ridx == RuIdx
    IN  /\ \A i \in 2..Len(Written) :
             IF Applies(KeyOf(Orig, i, kidx))
             THEN /\ Len(Written[i]) > ridx
                  /\ Written[i][ridx + 1] = ru_map[KeyOf(Orig, i, kidx)]
             ELSE Written[i] = Orig[i]
        /\ changed_rows =
             Cardinality({i \in 2..Len(Written) :
                            /\ Applies(KeyOf(Orig, i, kidx))
                            /\ Field(Orig[i], ridx) # ru_map[KeyOf(Orig, i, kidx)]})

\* C4's case: with empty replacement not allowed, one row kept its value against
\* an empty mapping value, and another, shorter than the value column, was patched.
C4_Witness ==
  /\ pc = "return" /\ ~cfg.allow_empty_replacement
  /\ \E i \in 2..Len(Written) :
       /\ KeyOf(Orig, i, KeyIdx) \in DOMAIN ru_map
       /\ ru_map[KeyOf(Orig, i, KeyIdx)] = << >>
       /\ Field(Orig[i], RuIdx) # << >> /\ Written[i] = Orig[i]
  /\ \E i \in 2..Len(Written) :
       Applies(KeyOf(Orig, i, KeyIdx)) /\ Len(Orig[i]) <= RuIdx
  /\ changed_rows = 1

\* The target's records, among the first n, whose key is not empty and not a key
\* of the reference.
MissingRows(n) ==
  LET kidx == KeyIdx
      keys == RefKeys
  IN  {i \in 2..n : KeyOf(Orig, i, kidx) # << >> /\ KeyOf(Orig, i, kidx) \notin keys}

\* C5: missing_keys counts exactly the rows whose trimmed key is non-empty and
\* absent from the reference, and each such row is written unchanged.
C5_MissingKeys ==
  InRows =>
    LET missing == MissingRows(Len(Written))
    IN  /\ missing_keys = Cardinality(missing)
        /\ \A i \in missing : Written[i] = Orig[i]

\* C5's case: one row's key is missing; another row is too short to have a key.
C5_Witness ==
  /\ pc = "return" /\ missing_keys = 1
  /\ \E i \in 2..Len(Orig) : Len(Orig[i]) <= KeyIdx /\ Len(Orig[i]) > 0

\* C6: a second call with the same reference changes no row and leaves the
\* target's records as the first call left them.
C6_Idempotent ==
  run = "second" =>
    /\ changed_rows = 0
    /\ pc = "return" => fs[Target].rows = fs0[Target].rows

\* C6's case: the second call has returned, a second after a first call whose
\* backup shows that it changed the target.
C6_Witness ==
  /\ run = "second" /\ pc = "return" /\ now = 2
  /\ fs[backup_path_of(Target, 1)].rows # fs[Target].rows

\* C7: the rewritten target has the original's header and as many rows, each at
\* least as long as before, with every cell but the value column's as it was.
C7_Frame ==
  pc = "return" =>
    LET new == fs[Target].rows
        ridx == RuIdx
    IN  /\ Len(new) = Len(Orig)
        /\ new[1] = Orig[1]
        /\ \A i \in 2..Len(Orig) :
             /\ Len(new[i]) >= Len(Orig[i])
             /\ \A j \in 0..(Len(new[i]) - 1) :
                  j # ridx => Field(new[i], j) = Field(Orig[i], j)

\* C7's case: a row with cells after the value column got a new value.
C7_Witness ==
  /\ pc = "return"
  /\ \E i \in 2..Len(Orig) :
       Len(Orig[i]) > RuIdx + 1 /\ fs[Target].rows[i] # Orig[i]

====
